---- MODULE Spec2Model ----
(***************************************************************************)
(* A model of lib/tls.go of certigo: the two registries (protocol version  *)
(* and cipher suite), the resolver `lookup`, the name derivation           *)
(* `explainCipher`, the colouring `tlscolor` and the two encoders          *)
(* EncodeTLSToText and EncodeTLSToObject.                                  *)
(*                                                                         *)
(* Go strings are modelled as sequences of one-character strings, so that  *)
(* strings.Split, slicing, fmt.Sprintf("%x") and the template rendering    *)
(* are computed character by character, as the code computes them.         *)
(***************************************************************************)
EXTENDS Integers, Sequences, FiniteSets, TLC

VARIABLES tlsVersions, cipherSuites, NoColor, call, before

vars == <<tlsVersions, cipherSuites, NoColor, call, before>>

----------------------------------------------------------------------------
\* Bounds of the model.

\* How many of the unregistered identifiers of ProbeTable are fed to the
\* operations, next to every registered identifier.
NumProbes == 4

\* Unregistered 16-bit identifiers: 0x0000, 0x0304 (TLS 1.3), 0x1301 (a TLS 1.3
\* suite), 0xffff, 0xabcd, 0x00ff, 0x0010.
ProbeTable == <<0, 772, 4865, 65535, 43981, 255, 16>>

ProbeIds == {ProbeTable[i] : i \in 1..(IF NumProbes < Len(ProbeTable) THEN NumProbes ELSE Len(ProbeTable))}

\* uint16
Uint16 == 0..65535

----------------------------------------------------------------------------
\* The quality tiers (const block, iota).
insecure == 0
ok == 1
good == 2

\* type description struct { Name; Slug; Quality }
description(name, slug, quality) == [Name |-> name, Slug |-> slug, Quality |-> quality]

\* Protocol version identifiers of crypto/tls.
VersionSSL30 == 768  \* 0x0300
VersionTLS10 == 769  \* 0x0301
VersionTLS11 == 770  \* 0x0302
VersionTLS12 == 771  \* 0x0303

\* The version registry.
tlsVersionsTable ==
    (VersionSSL30 :> description(<<"S","S","L"," ","3",".","0">>, <<"s","s","l","_","3","_","0">>, insecure))
 @@ (VersionTLS10 :> description(<<"T","L","S"," ","1",".","0">>, <<"t","l","s","_","1","_","0">>, insecure))
 @@ (VersionTLS11 :> description(<<"T","L","S"," ","1",".","1">>, <<"t","l","s","_","1","_","1">>, ok))
 @@ (VersionTLS12 :> description(<<"T","L","S"," ","1",".","2">>, <<"t","l","s","_","1","_","2">>, good))

\* Cipher-suite identifiers of crypto/tls (decimal; hexadecimal in the comment).
TLS_RSA_WITH_RC4_128_SHA == 5  \* 0x0005
TLS_RSA_WITH_3DES_EDE_CBC_SHA == 10  \* 0x000a
TLS_RSA_WITH_AES_128_CBC_SHA == 47  \* 0x002f
TLS_RSA_WITH_AES_256_CBC_SHA == 53  \* 0x0035
TLS_RSA_WITH_AES_128_CBC_SHA256 == 60  \* 0x003c
TLS_RSA_WITH_AES_128_GCM_SHA256 == 156  \* 0x009c
TLS_RSA_WITH_AES_256_GCM_SHA384 == 157  \* 0x009d
TLS_ECDHE_ECDSA_WITH_RC4_128_SHA == 49159  \* 0xc007
TLS_ECDHE_ECDSA_WITH_AES_128_CBC_SHA == 49161  \* 0xc009
TLS_ECDHE_ECDSA_WITH_AES_256_CBC_SHA == 49162  \* 0xc00a
TLS_ECDHE_RSA_WITH_RC4_128_SHA == 49169  \* 0xc011
TLS_ECDHE_RSA_WITH_3DES_EDE_CBC_SHA == 49170  \* 0xc012
TLS_ECDHE_RSA_WITH_AES_128_CBC_SHA == 49171  \* 0xc013
TLS_ECDHE_RSA_WITH_AES_256_CBC_SHA == 49172  \* 0xc014
TLS_ECDHE_ECDSA_WITH_AES_128_CBC_SHA256 == 49187  \* 0xc023
TLS_ECDHE_RSA_WITH_AES_128_CBC_SHA256 == 49191  \* 0xc027
TLS_ECDHE_RSA_WITH_AES_128_GCM_SHA256 == 49199  \* 0xc02f
TLS_ECDHE_ECDSA_WITH_AES_128_GCM_SHA256 == 49195  \* 0xc02b
TLS_ECDHE_RSA_WITH_AES_256_GCM_SHA384 == 49200  \* 0xc030
TLS_ECDHE_ECDSA_WITH_AES_256_GCM_SHA384 == 49196  \* 0xc02c
TLS_ECDHE_RSA_WITH_CHACHA20_POLY1305 == 52392  \* 0xcca8
TLS_ECDHE_ECDSA_WITH_CHACHA20_POLY1305 == 52393  \* 0xcca9

\* The cipher-suite registry: every Name starts empty, Slug is the constant's name.
cipherSuitesTable ==
    (TLS_RSA_WITH_RC4_128_SHA :> description(<<>>,
        <<"T","L","S","_","R","S","A","_","W","I","T","H","_","R","C","4","_","1","2","8","_","S","H","A">>,
        insecure))
 @@ (TLS_RSA_WITH_3DES_EDE_CBC_SHA :> description(<<>>,
        <<"T","L","S","_","R","S","A","_","W","I","T","H","_","3","D","E","S","_","E","D","E","_","C","B","C","_","S","H","A">>,
        insecure))
 @@ (TLS_RSA_WITH_AES_128_CBC_SHA :> description(<<>>,
        <<"T","L","S","_","R","S","A","_","W","I","T","H","_","A","E","S","_","1","2","8","_","C","B","C","_","S","H","A">>,
        ok))
 @@ (TLS_RSA_WITH_AES_256_CBC_SHA :> description(<<>>,
        <<"T","L","S","_","R","S","A","_","W","I","T","H","_","A","E","S","_","2","5","6","_","C","B","C","_","S","H","A">>,
        ok))
 @@ (TLS_RSA_WITH_AES_128_CBC_SHA256 :> description(<<>>,
        <<"T","L","S","_","R","S","A","_","W","I","T","H","_","A","E","S","_","1","2","8","_","C","B","C","_","S","H","A","2","5","6">>,
        ok))
 @@ (TLS_RSA_WITH_AES_128_GCM_SHA256 :> description(<<>>,
        <<"T","L","S","_","R","S","A","_","W","I","T","H","_","A","E","S","_","1","2","8","_","G","C","M","_","S","H","A","2","5","6">>,
        ok))
 @@ (TLS_RSA_WITH_AES_256_GCM_SHA384 :> description(<<>>,
        <<"T","L","S","_","R","S","A","_","W","I","T","H","_","A","E","S","_","2","5","6","_","G","C","M","_","S","H","A","3","8","4">>,
        ok))
 @@ (TLS_ECDHE_ECDSA_WITH_RC4_128_SHA :> description(<<>>,
        <<"T","L","S","_","E","C","D","H","E","_","E","C","D","S","A","_","W","I","T","H","_","R","C","4","_","1","2","8","_","S","H","A">>,
        insecure))
 @@ (TLS_ECDHE_ECDSA_WITH_AES_128_CBC_SHA :> description(<<>>,
        <<"T","L","S","_","E","C","D","H","E","_","E","C","D","S","A","_","W","I","T","H","_","A","E","S","_","1","2","8","_","C","B","C","_","S","H","A">>,
        ok))
 @@ (TLS_ECDHE_ECDSA_WITH_AES_256_CBC_SHA :> description(<<>>,
        <<"T","L","S","_","E","C","D","H","E","_","E","C","D","S","A","_","W","I","T","H","_","A","E","S","_","2","5","6","_","C","B","C","_","S","H","A">>,
        ok))
 @@ (TLS_ECDHE_RSA_WITH_RC4_128_SHA :> description(<<>>,
        <<"T","L","S","_","E","C","D","H","E","_","R","S","A","_","W","I","T","H","_","R","C","4","_","1","2","8","_","S","H","A">>,
        insecure))
 @@ (TLS_ECDHE_RSA_WITH_3DES_EDE_CBC_SHA :> description(<<>>,
        <<"T","L","S","_","E","C","D","H","E","_","R","S","A","_","W","I","T","H","_","3","D","E","S","_","E","D","E","_","C","B","C","_","S","H","A">>,
        insecure))
 @@ (TLS_ECDHE_RSA_WITH_AES_128_CBC_SHA :> description(<<>>,
        <<"T","L","S","_","E","C","D","H","E","_","R","S","A","_","W","I","T","H","_","A","E","S","_","1","2","8","_","C","B","C","_","S","H","A">>,
        ok))
 @@ (TLS_ECDHE_RSA_WITH_AES_256_CBC_SHA :> description(<<>>,
        <<"T","L","S","_","E","C","D","H","E","_","R","S","A","_","W","I","T","H","_","A","E","S","_","2","5","6","_","C","B","C","_","S","H","A">>,
        ok))
 @@ (TLS_ECDHE_ECDSA_WITH_AES_128_CBC_SHA256 :> description(<<>>,
        <<"T","L","S","_","E","C","D","H","E","_","E","C","D","S","A","_","W","I","T","H","_","A","E","S","_","1","2","8","_","C","B","C","_","S","H","A","2","5","6">>,
        ok))
 @@ (TLS_ECDHE_RSA_WITH_AES_128_CBC_SHA256 :> description(<<>>,
        <<"T","L","S","_","E","C","D","H","E","_","R","S","A","_","W","I","T","H","_","A","E","S","_","1","2","8","_","C","B","C","_","S","H","A","2","5","6">>,
        ok))
 @@ (TLS_ECDHE_RSA_WITH_AES_128_GCM_SHA256 :> description(<<>>,
        <<"T","L","S","_","E","C","D","H","E","_","R","S","A","_","W","I","T","H","_","A","E","S","_","1","2","8","_","G","C","M","_","S","H","A","2","5","6">>,
        good))
 @@ (TLS_ECDHE_ECDSA_WITH_AES_128_GCM_SHA256 :> description(<<>>,
        <<"T","L","S","_","E","C","D","H","E","_","E","C","D","S","A","_","W","I","T","H","_","A","E","S","_","1","2","8","_","G","C","M","_","S","H","A","2","5","6">>,
        good))
 @@ (TLS_ECDHE_RSA_WITH_AES_256_GCM_SHA384 :> description(<<>>,
        <<"T","L","S","_","E","C","D","H","E","_","R","S","A","_","W","I","T","H","_","A","E","S","_","2","5","6","_","G","C","M","_","S","H","A","3","8","4">>,
        good))
 @@ (TLS_ECDHE_ECDSA_WITH_AES_256_GCM_SHA384 :> description(<<>>,
        <<"T","L","S","_","E","C","D","H","E","_","E","C","D","S","A","_","W","I","T","H","_","A","E","S","_","2","5","6","_","G","C","M","_","S","H","A","3","8","4">>,
        good))
 @@ (TLS_ECDHE_RSA_WITH_CHACHA20_POLY1305 :> description(<<>>,
        <<"T","L","S","_","E","C","D","H","E","_","R","S","A","_","W","I","T","H","_","C","H","A","C","H","A","2","0","_","P","O","L","Y","1","3","0","5">>,
        good))
 @@ (TLS_ECDHE_ECDSA_WITH_CHACHA20_POLY1305 :> description(<<>>,
        <<"T","L","S","_","E","C","D","H","E","_","E","C","D","S","A","_","W","I","T","H","_","C","H","A","C","H","A","2","0","_","P","O","L","Y","1","3","0","5">>,
        good))

----------------------------------------------------------------------------
\* String helpers: what the Go standard library does on the byte strings.

\* strings.Index(s, sep): position (1-based) of the first occurrence, 0 if none.
Index(s, sep) ==
    LET hits == {i \in 1..(Len(s) - Len(sep) + 1) : SubSeq(s, i, i + Len(sep) - 1) = sep}
    IN  IF hits = {} THEN 0 ELSE CHOOSE i \in hits : \A j \in hits : i <= j

\* strings.Split(s, sep) for a non-empty sep: all the substrings between the
\* occurrences of sep, found left to right without overlap.
RECURSIVE Split(_, _)
Split(s, sep) ==
    LET m == Index(s, sep)
    IN  IF m = 0 THEN <<s>>
        ELSE <<SubSeq(s, 1, m - 1)>> \o Split(SubSeq(s, m + Len(sep), Len(s)), sep)

\* The digits of the %x verb.
ldigits == <<"0","1","2","3","4","5","6","7","8","9","a","b","c","d","e","f">>

\* fmt.Sprintf("%x", what): lowercase hexadecimal, no padding, "0" for zero.
RECURSIVE FormatHex(_)
FormatHex(n) ==
    IF n < 16 THEN <<ldigits[n + 1]>>
    ELSE FormatHex(n \div 16) \o <<ldigits[(n % 16) + 1]>>

----------------------------------------------------------------------------
\* fmt.Sprintf("%04x", what): as %x, zero-padded to four digits.
FormatHex4(n) ==
    <<ldigits[((n \div 4096) % 16) + 1], ldigits[((n \div 256) % 16) + 1],
      ldigits[((n \div 16) % 16) + 1], ldigits[(n % 16) + 1]>>

\* Variant of lookup: the placeholder is built with %04x instead of %x.
lookup_padded(descriptions, what) ==
    IF what \in DOMAIN descriptions
    THEN descriptions[what]
    ELSE LET unknown == <<"U","N","K","N","O","W","N","_">> \o FormatHex4(what)
         IN  description(unknown, unknown, 0)

\* Variant of lookup: a registered entry with an empty Name gets its Slug as Name.
lookup_named(descriptions, what) ==
    IF what \in DOMAIN descriptions
    THEN LET v == descriptions[what]
         IN  IF v.Name = <<>> THEN [v EXCEPT !.Name = v.Slug] ELSE v
    ELSE LET unknown == <<"U","N","K","N","O","W","N","_">> \o FormatHex(what)
         IN  description(unknown, unknown, 0)

\* lookup: a map lookup with a default.
lookup(descriptions, what) ==
    IF what \in DOMAIN descriptions
    THEN descriptions[what]
    ELSE LET unknown == <<"U","N","K","N","O","W","N","_">> \o FormatHex(what)
         IN  description(unknown, unknown, 0)

\* explainCipher panics (index or slice bounds out of range) when the slug has
\* no "_WITH_" or when the part before it is shorter than len("TLS_").
explainCipherPanics(d) ==
    LET kexAndCipher == Split(d.Slug, <<"_","W","I","T","H","_">>)
    IN  \/ Len(kexAndCipher[1]) < Len(<<"T","L","S","_">>)
        \/ Len(kexAndCipher) < 2

\* Variant of explainCipher: the prefix is cut at len("TLS"), one short.
explainCipher_shortPrefix(d) ==
    LET kexAndCipher == Split(d.Slug, <<"_","W","I","T","H","_">>)
        kex == SubSeq(kexAndCipher[1], Len(<<"T","L","S">>) + 1, Len(kexAndCipher[1]))
    IN  [d EXCEPT !.Name = kex
                          \o <<" ","k","e","y"," ","e","x","c","h","a","n","g","e",","," ">>
                          \o kexAndCipher[2]
                          \o <<" ","c","i","p","h","e","r">>]

\* explainCipher: fill in a human readable name, extracted from the slug.
explainCipher(d) ==
    LET kexAndCipher == Split(d.Slug, <<"_","W","I","T","H","_">>)
        kex == SubSeq(kexAndCipher[1], Len(<<"T","L","S","_">>) + 1, Len(kexAndCipher[1]))
    IN  [d EXCEPT !.Name = kex
                          \o <<" ","k","e","y"," ","e","x","c","h","a","n","g","e",","," ">>
                          \o kexAndCipher[2]
                          \o <<" ","c","i","p","h","e","r">>]

\* The colours red, yellow and green, as the SGR parameter each one selects.
red == <<"3","1">>
yellow == <<"3","3">>
green == <<"3","2">>

\* var qualityColors
qualityColors == (insecure :> red) @@ (ok :> yellow) @@ (good :> green)

\* c.SprintFunc()(s) of fatih/color: s unchanged when colour is off, else s
\* between the escape sequence of the colour and the reset sequence.
Sprint(c, s, noColor) ==
    IF noColor THEN s
    ELSE <<"ESC", "[">> \o c \o <<"m">> \o s \o <<"ESC", "[", "0", "m">>

\* tlscolor
tlscolor(d, noColor) ==
    IF d.Quality \notin DOMAIN qualityColors
    THEN d.Name
    ELSE Sprint(qualityColors[d.Quality], d.Name, noColor)

\* Variant of tlsLayout: the two fields exchanged.
tlsLayout_swapped ==
    << [text  |-> <<"*","*"," ","T","L","S"," ","C","o","n","n","e","c","t","i","o","n"," ","*","*","\n">>
                  \o <<"V","e","r","s","i","o","n",":"," ">>],
       [field |-> "Cipher"],
       [text  |-> <<"\n">> \o <<"C","i","p","h","e","r"," ","S","u","i","t","e",":"," ">>],
       [field |-> "Version"] >>

\* tlsLayout, as template.Parse reads it: text nodes and field nodes.
tlsLayout ==
    << [text  |-> <<"*","*"," ","T","L","S"," ","C","o","n","n","e","c","t","i","o","n"," ","*","*","\n">>
                  \o <<"V","e","r","s","i","o","n",":"," ">>],
       [field |-> "Version"],
       [text  |-> <<"\n">> \o <<"C","i","p","h","e","r"," ","S","u","i","t","e",":"," ">>],
       [field |-> "Cipher"] >>

\* t.Execute(w, description): the text nodes verbatim, each field node
\* replaced by the value of that field (text/template does not escape).
RECURSIVE Execute(_, _)
Execute(nodes, data) ==
    IF nodes = <<>> THEN <<>>
    ELSE LET n == Head(nodes)
         IN  (IF "text" \in DOMAIN n THEN n.text ELSE data[n.field])
             \o Execute(Tail(nodes), data)

\* EncodeTLSToText panics exactly when explainCipher does: the layout is a
\* constant that parses, and both fields of the data exist.
EncodeTLSToTextPanics(versions, suites, Version, CipherSuite) ==
    explainCipherPanics(lookup(suites, CipherSuite))

\* EncodeTLSToText
EncodeTLSToText(versions, suites, Version, CipherSuite, noColor) ==
    LET version == lookup(versions, Version)
        cipher == lookup(suites, CipherSuite)
        desc == [Version |-> tlscolor(version, noColor),
                 Cipher  |-> tlscolor(explainCipher(cipher), noColor)]
    IN  Execute(tlsLayout, desc)

\* Variant of EncodeTLSToObject: the version is reported by Name, not Slug.
EncodeTLSToObject_names(versions, suites, Version, CipherSuite) ==
    LET version == lookup(versions, Version)
        cipher == lookup(suites, CipherSuite)
    IN  [Version |-> version.Name, Cipher |-> cipher.Slug]

\* EncodeTLSToObject
EncodeTLSToObject(versions, suites, Version, CipherSuite) ==
    LET version == lookup(versions, Version)
        cipher == lookup(suites, CipherSuite)
    IN  [Version |-> version.Slug, Cipher |-> cipher.Slug]

----------------------------------------------------------------------------
\* The inputs fed to the operations.

\* tcs.Version: every registered version and the probes.
VersionIds == DOMAIN tlsVersionsTable \cup ProbeIds

\* tcs.CipherSuite: every registered suite and the probes.
CipherIds == DOMAIN cipherSuitesTable \cup ProbeIds

\* `what` of lookup: every identifier above, against either registry.
LookupIds == VersionIds \cup CipherIds

\* Slugs outside the TLS_<kex>_WITH_<cipher> shape: "TLS", "A_WITH_B",
\* "TLS__WITH_" and "TLS_A_WITH_B_WITH_C".
OddSlugs ==
    { <<"T","L","S">>,
      <<"A","_","W","I","T","H","_","B">>,
      <<"T","L","S","_","_","W","I","T","H","_">>,
      <<"T","L","S","_","A","_","W","I","T","H","_","B","_","W","I","T","H","_","C">> }

\* Arguments of explainCipher: what lookup yields on either registry, and
\* descriptions with the odd slugs.
ExplainArgs ==
    {lookup(cipherSuitesTable, id) : id \in CipherIds}
    \cup {lookup(tlsVersionsTable, id) : id \in DOMAIN tlsVersionsTable}
    \cup {description(<<>>, s, insecure) : s \in OddSlugs}

NoDesc == description(<<>>, <<>>, 0)
NoObj == [Version |-> <<>>, Cipher |-> <<>>]

\* The record of one call: the operation, its inputs, and its outcome (a
\* panic, or the value returned in the field of its type).
CallRecord(op, registry, what, Version, CipherSuite, arg, panic, desc, text, obj) ==
    [op |-> op, registry |-> registry, what |-> what,
     Version |-> Version, CipherSuite |-> CipherSuite, arg |-> arg,
     panic |-> panic, desc |-> desc, text |-> text, obj |-> obj]

SameInputs(c1, c2) ==
    /\ c1.op = c2.op
    /\ c1.registry = c2.registry
    /\ c1.what = c2.what
    /\ c1.Version = c2.Version
    /\ c1.CipherSuite = c2.CipherSuite
    /\ c1.arg = c2.arg

Outcome(c) == [panic |-> c.panic, desc |-> c.desc, text |-> c.text, obj |-> c.obj]

\* The registry a call of lookup names.
Registry(name) == IF name = "tlsVersions" THEN tlsVersions ELSE cipherSuites

\* before' remembers the outcome of the call just made when the next call
\* repeats it (same operation, same inputs).
Remember(next) ==
    before' = IF SameInputs(call, next)
              THEN [valid |-> TRUE, out |-> Outcome(call)]
              ELSE [valid |-> FALSE, out |-> Outcome(next)]

----------------------------------------------------------------------------
InitCall == CallRecord("init", "none", 0, 0, 0, NoDesc, FALSE, NoDesc, <<>>, NoObj)

\* Variant of Init: the ChaCha20-Poly1305 suite with RSA authentication is
\* entered as ok.
Init_chachaOk ==
    /\ tlsVersions = tlsVersionsTable
    /\ cipherSuites = [cipherSuitesTable EXCEPT ![TLS_ECDHE_RSA_WITH_CHACHA20_POLY1305].Quality = ok]
    /\ NoColor \in BOOLEAN
    /\ call = InitCall
    /\ before = [valid |-> FALSE, out |-> Outcome(call)]

\* Variant of Init: the ECDHE-RSA 3DES suite is entered as ok, like its CBC
\* neighbours.
Init_3desOk ==
    /\ tlsVersions = tlsVersionsTable
    /\ cipherSuites = [cipherSuitesTable EXCEPT ![TLS_ECDHE_RSA_WITH_3DES_EDE_CBC_SHA].Quality = ok]
    /\ NoColor \in BOOLEAN
    /\ call = InitCall
    /\ before = [valid |-> FALSE, out |-> Outcome(call)]

\* Variant of Init: TLS 1.0 is entered as ok.
Init_tls10Ok ==
    /\ tlsVersions = [tlsVersionsTable EXCEPT ![VersionTLS10].Quality = ok]
    /\ cipherSuites = cipherSuitesTable
    /\ NoColor \in BOOLEAN
    /\ call = InitCall
    /\ before = [valid |-> FALSE, out |-> Outcome(call)]

\* Package initialisation: the registries hold their tables; color.NoColor is
\* whatever the terminal detection of fatih/color decided.
Init ==
    /\ tlsVersions = tlsVersionsTable
    /\ cipherSuites = cipherSuitesTable
    /\ NoColor \in BOOLEAN
    /\ call = InitCall
    /\ before = [valid |-> FALSE, out |-> Outcome(call)]

\* A call of lookup(descriptions, what).
LookupCall ==
    /\ ~call.panic
    /\ \E registry \in {"tlsVersions", "cipherSuites"}, what \in LookupIds :
         LET next == CallRecord("lookup", registry, what, 0, 0, NoDesc,
                                FALSE, lookup(Registry(registry), what), <<>>, NoObj)
         IN  /\ call' = next
             /\ Remember(next)
    /\ UNCHANGED <<tlsVersions, cipherSuites, NoColor>>

\* A call of explainCipher(d); d is passed by value.
ExplainCipherCall ==
    /\ ~call.panic
    /\ \E d \in ExplainArgs :
         LET next == IF explainCipherPanics(d)
                     THEN CallRecord("explainCipher", "none", 0, 0, 0, d,
                                     TRUE, NoDesc, <<>>, NoObj)
                     ELSE CallRecord("explainCipher", "none", 0, 0, 0, d,
                                     FALSE, explainCipher(d), <<>>, NoObj)
         IN  /\ call' = next
             /\ Remember(next)
    /\ UNCHANGED <<tlsVersions, cipherSuites, NoColor>>

\* Variant of EncodeTLSToTextCall: the explained description is stored back
\* into the cipher-suite registry.
EncodeTLSToTextCall_caching ==
    /\ ~call.panic
    /\ \E Version \in VersionIds, CipherSuite \in CipherIds :
         LET panics == EncodeTLSToTextPanics(tlsVersions, cipherSuites, Version, CipherSuite)
             next == IF panics
                     THEN CallRecord("EncodeTLSToText", "none", 0, Version, CipherSuite, NoDesc,
                                     TRUE, NoDesc, <<>>, NoObj)
                     ELSE CallRecord("EncodeTLSToText", "none", 0, Version, CipherSuite, NoDesc,
                                     FALSE, NoDesc,
                                     EncodeTLSToText(tlsVersions, cipherSuites, Version, CipherSuite, NoColor),
                                     NoObj)
         IN  /\ call' = next
             /\ Remember(next)
             /\ cipherSuites' = IF panics THEN cipherSuites
                                ELSE (CipherSuite :> explainCipher(lookup(cipherSuites, CipherSuite)))
                                     @@ cipherSuites
    /\ UNCHANGED <<tlsVersions, NoColor>>

\* A call of EncodeTLSToText(tcs).
EncodeTLSToTextCall ==
    /\ ~call.panic
    /\ \E Version \in VersionIds, CipherSuite \in CipherIds :
         LET next == IF EncodeTLSToTextPanics(tlsVersions, cipherSuites, Version, CipherSuite)
                     THEN CallRecord("EncodeTLSToText", "none", 0, Version, CipherSuite, NoDesc,
                                     TRUE, NoDesc, <<>>, NoObj)
                     ELSE CallRecord("EncodeTLSToText", "none", 0, Version, CipherSuite, NoDesc,
                                     FALSE, NoDesc,
                                     EncodeTLSToText(tlsVersions, cipherSuites, Version, CipherSuite, NoColor),
                                     NoObj)
         IN  /\ call' = next
             /\ Remember(next)
    /\ UNCHANGED <<tlsVersions, cipherSuites, NoColor>>

\* A call of EncodeTLSToObject(t).
EncodeTLSToObjectCall ==
    /\ ~call.panic
    /\ \E Version \in VersionIds, CipherSuite \in CipherIds :
         LET next == CallRecord("EncodeTLSToObject", "none", 0, Version, CipherSuite, NoDesc,
                                FALSE, NoDesc, <<>>,
                                EncodeTLSToObject(tlsVersions, cipherSuites, Version, CipherSuite))
         IN  /\ call' = next
             /\ Remember(next)
    /\ UNCHANGED <<tlsVersions, cipherSuites, NoColor>>

Next ==
    \/ LookupCall
    \/ ExplainCipherCall
    \/ EncodeTLSToTextCall
    \/ EncodeTLSToObjectCall

Spec == Init /\ [][Next]_vars

TypeOK ==
    /\ DOMAIN tlsVersions \subseteq Uint16
    /\ DOMAIN cipherSuites \subseteq Uint16
    /\ NoColor \in BOOLEAN
    /\ call.op \in {"init", "lookup", "explainCipher", "EncodeTLSToText", "EncodeTLSToObject"}
    /\ call.panic \in BOOLEAN
    /\ before.valid \in BOOLEAN

----------------------------------------------------------------------------
\* Vocabulary of the properties, stated without lookup, Split or FormatHex.

HasPrefix(s, p) == Len(s) >= Len(p) /\ SubSeq(s, 1, Len(p)) = p

Contains(s, sub) == \E i \in 1..(Len(s) - Len(sub) + 1) : SubSeq(s, i, i + Len(sub) - 1) = sub

Occurrences(s, sub) == {i \in 1..(Len(s) - Len(sub) + 1) : SubSeq(s, i, i + Len(sub) - 1) = sub}

LowerHexDigits == {"0","1","2","3","4","5","6","7","8","9","a","b","c","d","e","f"}

DigitValue(c) ==
    CASE c = "0" -> 0 [] c = "1" -> 1 [] c = "2" -> 2 [] c = "3" -> 3
      [] c = "4" -> 4 [] c = "5" -> 5 [] c = "6" -> 6 [] c = "7" -> 7
      [] c = "8" -> 8 [] c = "9" -> 9 [] c = "a" -> 10 [] c = "b" -> 11
      [] c = "c" -> 12 [] c = "d" -> 13 [] c = "e" -> 14 [] c = "f" -> 15

\* The number a string of hexadecimal digits denotes.
RECURSIVE HexValue(_)
HexValue(h) ==
    IF h = <<>> THEN 0
    ELSE 16 * HexValue(SubSeq(h, 1, Len(h) - 1)) + DigitValue(h[Len(h)])

UnknownPrefix == <<"U","N","K","N","O","W","N","_">>

\* s is "UNKNOWN_" followed by the lowercase hexadecimal form of id.
IsUnknownSlugOf(s, id) ==
    /\ HasPrefix(s, UnknownPrefix)
    /\ LET h == SubSeq(s, Len(UnknownPrefix) + 1, Len(s))
       IN  /\ Len(h) >= 1
           /\ \A i \in 1..Len(h) : h[i] \in LowerHexDigits
           /\ Len(h) > 1 => h[1] # "0"
           /\ HexValue(h) = id

WithSep == <<"_","W","I","T","H","_">>
TlsPrefix == <<"T","L","S","_">>

\* The slug has the shape TLS_<kex>_WITH_<cipher>, with a single _WITH_.
WellFormedSlug(slug) ==
    /\ HasPrefix(slug, TlsPrefix)
    /\ Cardinality(Occurrences(slug, WithSep)) = 1

\* "<kex> key exchange, <cipher> cipher" of a well-formed slug.
DerivedName(slug) ==
    LET k == CHOOSE k \in Occurrences(slug, WithSep) : TRUE
    IN  SubSeq(slug, Len(TlsPrefix) + 1, k - 1)
        \o <<" ","k","e","y"," ","e","x","c","h","a","n","g","e",","," ">>
        \o SubSeq(slug, k + Len(WithSep), Len(slug))
        \o <<" ","c","i","p","h","e","r">>

\* The slug a registry table gives an identifier: the entry's, or the placeholder's.
IsSlugFor(s, table, id) ==
    IF id \in DOMAIN table THEN s = table[id].Slug ELSE IsUnknownSlugOf(s, id)

IsAead(slug) ==
    \/ Contains(slug, <<"_","G","C","M","_">>)
    \/ Contains(slug, <<"C","H","A","C","H","A","2","0","_","P","O","L","Y","1","3","0","5">>)

IsRc4Or3Des(slug) ==
    \/ Contains(slug, <<"R","C","4">>)
    \/ Contains(slug, <<"3","D","E","S">>)

IsCbc(slug) == Contains(slug, <<"_","C","B","C","_">>)

IsEcdhe(slug) == HasPrefix(slug, <<"T","L","S","_","E","C","D","H","E","_">>)

IsRsaKex(slug) == HasPrefix(slug, <<"T","L","S","_","R","S","A","_">>)

Range(f) == {f[x] : x \in DOMAIN f}

----------------------------------------------------------------------------
\* C1: EncodeTLSToText completes and returns a rendered text block for every
\* pair of 16-bit identifiers, registered or not; no call faults.
C1_TextNeverFaults ==
    call.op = "EncodeTLSToText" => (~call.panic /\ call.text # <<>>)

\* C2: for every identifier absent from the registry passed to it, lookup
\* returns name = slug = "UNKNOWN_" followed by the lowercase hexadecimal form
\* of the identifier, and quality INSECURE (0); it never fails.
C2_UnknownPlaceholder ==
    (call.op = "lookup" /\ call.what \notin DOMAIN Registry(call.registry)) =>
        /\ ~call.panic
        /\ call.desc.Name = call.desc.Slug
        /\ IsUnknownSlugOf(call.desc.Slug, call.what)
        /\ call.desc.Quality = 0
        /\ insecure = 0

C2_Witness ==
    /\ call.op = "lookup"
    /\ call.registry = "cipherSuites"
    /\ call.what = 772
    /\ call.desc.Slug = <<"U","N","K","N","O","W","N","_","3","0","4">>

\* C3: for every identifier present in the version or the cipher-suite
\* registry, lookup on that registry returns exactly the registered
\* Description: name, slug and quality equal the table entry.
C3_RegisteredUnchanged ==
    /\ (call.op = "lookup" /\ call.registry = "tlsVersions" /\ call.what \in DOMAIN tlsVersionsTable) =>
           /\ ~call.panic
           /\ call.desc.Name = tlsVersionsTable[call.what].Name
           /\ call.desc.Slug = tlsVersionsTable[call.what].Slug
           /\ call.desc.Quality = tlsVersionsTable[call.what].Quality
    /\ (call.op = "lookup" /\ call.registry = "cipherSuites" /\ call.what \in DOMAIN cipherSuitesTable) =>
           /\ ~call.panic
           /\ call.desc.Name = cipherSuitesTable[call.what].Name
           /\ call.desc.Slug = cipherSuitesTable[call.what].Slug
           /\ call.desc.Quality = cipherSuitesTable[call.what].Quality

C3_Witness ==
    /\ call.op = "lookup"
    /\ call.registry = "cipherSuites"
    /\ call.what = TLS_RSA_WITH_AES_128_CBC_SHA
    /\ call.desc = description(<<>>, <<"T","L","S","_","R","S","A","_","W","I","T","H","_","A","E","S","_","1","2","8","_","C","B","C","_","S","H","A">>, 1)

\* C4: EncodeTLSToObject has no failure path: for every pair of identifiers it
\* returns a record with exactly the fields version and cipher, holding the
\* slug (registered, or the UNKNOWN placeholder) of each identifier; TLS 1.2
\* with TLS_ECDHE_RSA_WITH_AES_128_GCM_SHA256 gives
\* {"tls_1_2", "TLS_ECDHE_RSA_WITH_AES_128_GCM_SHA256"}.
C4_ObjectCarriesSlugs ==
    call.op = "EncodeTLSToObject" =>
        /\ ~call.panic
        /\ DOMAIN call.obj = {"Version", "Cipher"}
        /\ IsSlugFor(call.obj.Version, tlsVersionsTable, call.Version)
        /\ IsSlugFor(call.obj.Cipher, cipherSuitesTable, call.CipherSuite)
        /\ (call.Version = 771 /\ call.CipherSuite = 49199) =>
               /\ call.obj.Version = <<"t","l","s","_","1","_","2">>
               /\ call.obj.Cipher = <<"T","L","S","_","E","C","D","H","E","_","R","S","A","_","W","I","T","H","_","A","E","S","_","1","2","8","_","G","C","M","_","S","H","A","2","5","6">>

C4_Witness ==
    /\ call.op = "EncodeTLSToObject"
    /\ call.Version = 772
    /\ call.CipherSuite = TLS_ECDHE_RSA_WITH_AES_128_GCM_SHA256
    /\ call.obj.Version = <<"U","N","K","N","O","W","N","_","3","0","4">>
    /\ call.obj.Cipher = cipherSuitesTable[TLS_ECDHE_RSA_WITH_AES_128_GCM_SHA256].Slug

\* C5, as claimed: every GCM or ChaCha20-Poly1305 entry of the cipher-suite
\* registry, whatever its key exchange (RSA or ECDHE), has quality GOOD.
C5_AllAeadGood ==
    \A id \in DOMAIN cipherSuites :
        IsAead(cipherSuites[id].Slug) => cipherSuites[id].Quality = good

\* C5, amended: every GCM or ChaCha20-Poly1305 entry with ECDHE key exchange
\* has quality GOOD, and every GCM entry with RSA key exchange has quality
\* ACCEPTABLE; lookup reports an entry with that quality.
C5_EcdheAeadGood ==
    /\ \A id \in DOMAIN cipherSuites :
           LET d == cipherSuites[id]
           IN  /\ (IsAead(d.Slug) /\ IsEcdhe(d.Slug)) => d.Quality = good
               /\ (IsAead(d.Slug) /\ IsRsaKex(d.Slug)) => d.Quality = ok
               /\ IsAead(d.Slug) => (IsEcdhe(d.Slug) \/ IsRsaKex(d.Slug))
    /\ (call.op = "lookup" /\ call.registry = "cipherSuites" /\ IsAead(call.desc.Slug)) =>
           call.desc.Quality = (IF IsEcdhe(call.desc.Slug) THEN 2 ELSE 1)

C5_Witness ==
    /\ call.op = "lookup"
    /\ call.registry = "cipherSuites"
    /\ call.what = TLS_RSA_WITH_AES_256_GCM_SHA384
    /\ IsAead(call.desc.Slug)
    /\ call.desc.Quality = ok

\* C6: every entry of the cipher-suite registry that uses RC4 or 3DES has
\* quality INSECURE, and every other CBC-mode entry has quality ACCEPTABLE;
\* lookup reports an entry with that quality.
C6_WeakAndCbcTiers ==
    /\ \A id \in DOMAIN cipherSuites :
           LET d == cipherSuites[id]
           IN  /\ IsRc4Or3Des(d.Slug) => d.Quality = insecure
               /\ (IsCbc(d.Slug) /\ ~IsRc4Or3Des(d.Slug)) =>
                      (d.Quality = ok /\ (IsEcdhe(d.Slug) \/ IsRsaKex(d.Slug)))
    /\ (call.op = "lookup" /\ call.registry = "cipherSuites" /\ IsRc4Or3Des(call.desc.Slug)) =>
           call.desc.Quality = 0
    /\ (call.op = "lookup" /\ call.registry = "cipherSuites"
           /\ IsCbc(call.desc.Slug) /\ ~IsRc4Or3Des(call.desc.Slug)) =>
           call.desc.Quality = 1

C6_Witness ==
    /\ call.op = "lookup"
    /\ call.registry = "cipherSuites"
    /\ call.what = TLS_ECDHE_RSA_WITH_3DES_EDE_CBC_SHA
    /\ IsCbc(call.desc.Slug)
    /\ IsRc4Or3Des(call.desc.Slug)
    /\ call.desc.Quality = insecure

\* The lines of the text a call of EncodeTLSToText returned.
TextLines == Split(call.text, <<"\n">>)

\* line is the label followed by the name, the name possibly wrapped in colour
\* (and bare when colour is off).
IsLabelled(line, label, name) ==
    /\ HasPrefix(line, label)
    /\ LET rest == SubSeq(line, Len(label) + 1, Len(line))
       IN  /\ Contains(rest, name)
           /\ NoColor => rest = name

\* C7: for registered version and cipher identifiers, the output of
\* EncodeTLSToText is, in this order, the header line "** TLS Connection **",
\* a line "Version: " with the registered version name and a line
\* "Cipher Suite: " with the cipher name derived from the registered slug.
C7_TextLayout ==
    (/\ call.op = "EncodeTLSToText"
     /\ call.Version \in DOMAIN tlsVersionsTable
     /\ call.CipherSuite \in DOMAIN cipherSuitesTable) =>
        /\ ~call.panic
        /\ Len(TextLines) = 3
        /\ TextLines[1] = <<"*","*"," ","T","L","S"," ","C","o","n","n","e","c","t","i","o","n"," ","*","*">>
        /\ IsLabelled(TextLines[2], <<"V","e","r","s","i","o","n",":"," ">>,
                      tlsVersionsTable[call.Version].Name)
        /\ IsLabelled(TextLines[3], <<"C","i","p","h","e","r"," ","S","u","i","t","e",":"," ">>,
                      DerivedName(cipherSuitesTable[call.CipherSuite].Slug))

C7_Witness ==
    /\ call.op = "EncodeTLSToText"
    /\ call.Version = VersionTLS12
    /\ call.CipherSuite = TLS_ECDHE_RSA_WITH_AES_128_GCM_SHA256
    /\ ~NoColor
    /\ Len(TextLines) = 3
    /\ Contains(TextLines[2], <<"T","L","S"," ","1",".","2">>)
    /\ Contains(TextLines[3], <<"E","C","D","H","E","_","R","S","A"," ","k","e","y"," ","e","x","c","h","a","n","g","e",","," ","A","E","S","_","1","2","8","_","G","C","M","_","S","H","A","2","5","6"," ","c","i","p","h","e","r">>)

\* C8: after any sequence of calls both registries hold exactly their initial
\* entries, and an encoder called again with the same identifiers yields the
\* same outcome as the call before.
C8_NoHiddenState ==
    /\ tlsVersions = tlsVersionsTable
    /\ cipherSuites = cipherSuitesTable
    /\ (before.valid /\ call.op \in {"EncodeTLSToText", "EncodeTLSToObject"}) =>
           Outcome(call) = before.out

C8_Witness ==
    /\ before.valid
    /\ call.op = "EncodeTLSToText"
    /\ call.CipherSuite = TLS_RSA_WITH_RC4_128_SHA
    /\ ~call.panic
    /\ call.text # <<>>

\* C9: in the version registry SSL 3.0 and TLS 1.0 are INSECURE, TLS 1.1 is
\* ACCEPTABLE and TLS 1.2 is GOOD; these four are the only registered
\* versions, and any other version identifier (TLS 1.3, 0x0304) resolves to
\* the UNKNOWN placeholder with quality INSECURE.
C9_VersionTiers ==
    /\ DOMAIN tlsVersions = {768, 769, 770, 771}
    /\ tlsVersions[768].Name = <<"S","S","L"," ","3",".","0">> /\ tlsVersions[768].Quality = 0
    /\ tlsVersions[769].Name = <<"T","L","S"," ","1",".","0">> /\ tlsVersions[769].Quality = 0
    /\ tlsVersions[770].Name = <<"T","L","S"," ","1",".","1">> /\ tlsVersions[770].Quality = 1
    /\ tlsVersions[771].Name = <<"T","L","S"," ","1",".","2">> /\ tlsVersions[771].Quality = 2
    /\ (call.op = "lookup" /\ call.registry = "tlsVersions") =>
           IF call.what \in {768, 769, 770, 771}
           THEN call.desc.Quality = (IF call.what = 771 THEN 2 ELSE IF call.what = 770 THEN 1 ELSE 0)
           ELSE HasPrefix(call.desc.Name, UnknownPrefix) /\ call.desc.Quality = 0

C9_Witness ==
    /\ call.op = "lookup"
    /\ call.registry = "tlsVersions"
    /\ call.what = 772
    /\ call.desc.Name = <<"U","N","K","N","O","W","N","_","3","0","4">>
    /\ call.desc.Quality = 0

\* C10: every slug of the cipher-suite registry starts with TLS_ and contains
\* exactly one _WITH_, and explainCipher on such an entry returns without
\* fault the entry with name "<kex> key exchange, <cipher> cipher", slug and
\* quality unchanged; TLS_RSA_WITH_AES_128_GCM_SHA256 gives
\* "RSA key exchange, AES_128_GCM_SHA256 cipher".
C10_ExplainRegistered ==
    /\ \A id \in DOMAIN cipherSuites : WellFormedSlug(cipherSuites[id].Slug)
    /\ (call.op = "explainCipher" /\ call.arg \in Range(cipherSuites)) =>
           /\ ~call.panic
           /\ call.desc.Name = DerivedName(call.arg.Slug)
           /\ call.desc.Slug = call.arg.Slug
           /\ call.desc.Quality = call.arg.Quality
           /\ call.arg = cipherSuitesTable[TLS_RSA_WITH_AES_128_GCM_SHA256] =>
                  call.desc.Name = <<"R","S","A"," ","k","e","y"," ","e","x","c","h","a","n","g","e",","," ","A","E","S","_","1","2","8","_","G","C","M","_","S","H","A","2","5","6"," ","c","i","p","h","e","r">>

C10_Witness ==
    /\ call.op = "explainCipher"
    /\ call.arg = cipherSuitesTable[TLS_RSA_WITH_AES_128_GCM_SHA256]
    /\ call.desc.Name = <<"R","S","A"," ","k","e","y"," ","e","x","c","h","a","n","g","e",","," ","A","E","S","_","1","2","8","_","G","C","M","_","S","H","A","2","5","6"," ","c","i","p","h","e","r">>
====
